---- MODULE Spec2Model ----
(***************************************************************************)
(* A model of src/src/Trader.py: the Trader object (weights, formulas,     *)
(* max_lag, score and the two prediction histories) and its methods.       *)
(* numpy arrays are modelled by their shape and their flattened data; a    *)
(* float cell is either a number or NaN.                                   *)
(***************************************************************************)
EXTENDS Integers, Sequences, FiniteSets, TLC

\* ------------------------------------------------------------------ bounds
MaxT == 2            \* longest feature history the caller assembles
MaxHist == 2         \* _append_predicts is not called on a longer history
Cols == {1, 2}       \* columns of the feature array
FeatVals == {0, 1}
RetVals == {-1, 2}
TermCounts == {1, 2}
InitialWeights == <<2, -1>>
Lags == {0, 1}       \* values of max_lag and of a formula's look-back
Methods == {"default", "sharpe"}

\* ------------------------------------------------------------ numpy floats
NaN == [def |-> FALSE, val |-> 0]
Num(v) == [def |-> TRUE, val |-> v]
IsNaN(c) == ~c.def

Sgn(v) == IF v > 0 THEN 1 ELSE IF v < 0 THEN -1 ELSE 0
NpSign(c) == IF c.def THEN Num(Sgn(c.val)) ELSE NaN
NpMul(c, d) == IF c.def /\ d.def THEN Num(c.val * d.val) ELSE NaN
NpAdd(c, d) == IF c.def /\ d.def THEN Num(c.val + d.val) ELSE NaN

RECURSIVE NpSum(_)
NpSum(a) == IF Len(a) = 0 THEN Num(0) ELSE NpAdd(a[1], NpSum(SubSeq(a, 2, Len(a))))

\* Arrays are built as tuples, cell by cell.
\* np.zeros(n) * np.nan
RECURSIVE NanArray(_)
NanArray(n) == IF n = 0 THEN <<>> ELSE Append(NanArray(n - 1), NaN)

\* a[i] = v (0-based) for a 1-D array
NpSetCell(a, i, v) == SubSeq(a, 1, i) \o <<v>> \o SubSeq(a, i + 2, Len(a))
\* np.zeros([rows, cols]) * np.nan
NanMatrix(rows, cols) == [shape |-> <<rows, cols>>, data |-> NanArray(rows * cols)]

\* a[mask] for 1-D a and a boolean mask of the same length: the first n cells
RECURSIVE BoolIndexTo(_, _, _)
BoolIndexTo(a, mask, n) ==
    IF n = 0 THEN <<>>
    ELSE BoolIndexTo(a, mask, n - 1) \o (IF mask[n] THEN <<a[n]>> ELSE <<>>)
BoolIndex(a, mask) == BoolIndexTo(a, mask, Len(a))

\* a[i] (0-based) for an ndarray: a row of a 2-D array, a scalar of a 1-D one
NpIndex(a, i) ==
    IF Len(a.shape) = 2
    THEN [shape |-> <<a.shape[2]>>,
          data |-> SubSeq(a.data, i * a.shape[2] + 1, (i + 1) * a.shape[2])]
    ELSE [shape |-> <<>>, data |-> <<a.data[i + 1]>>]

\* a[i] = row (0-based) for a 2-D ndarray
NpSetRow(a, i, row) ==
    [shape |-> a.shape,
     data |-> SubSeq(a.data, 1, i * a.shape[2]) \o row
              \o SubSeq(a.data, (i + 1) * a.shape[2] + 1, Len(a.data))]

\* np.append(a, values) without axis: both operands are flattened
NpAppendFlat(a, values) ==
    [shape |-> <<Len(a.data) + Len(values)>>, data |-> a.data \o values]

\* ---------------------------------------------------------------- formulas
\* Formula is imported, not defined here: predict(feature_arr) gives a scalar
\* and to_numerical_repr() a value.  A formula reads one feature column at a
\* fixed look-back and fails on a feature history too short for it.
FormulaSet == [col : Cols, lag : Lags]
FormulaDefined(f, feature_arr) == Len(feature_arr) > f.lag
FormulaPredict(f, feature_arr) == feature_arr[Len(feature_arr) - f.lag][f.col]
FormulaRepr(f) == <<f.col, f.lag>>

FeatureRows == [Cols -> FeatVals]

VARIABLES weights, formulas, max_lag, score, pred_hist, pred_hist_formulas,
          feature_arr, lastOp, eval_method, raised, result,
          histWriter   \* the method that last assigned the two histories

trader == <<weights, formulas, max_lag, score, pred_hist, pred_hist_formulas, histWriter>>
vars == <<weights, formulas, max_lag, score, pred_hist, pred_hist_formulas,
          feature_arr, lastOp, eval_method, raised, result, histWriter>>

n_terms == Len(formulas)

\* the attributes __init__ creates on the object
TraderAttrs == {"n_terms", "weights", "formulas", "max_lag", "score",
                "_pred_hist", "_pred_hist_formulas"}

\* the formulas reading columns 1..n at the look-backs lags[1..n]
RECURSIVE FormulaList(_, _)
FormulaList(lags, n) ==
    IF n = 0 THEN <<>>
    ELSE Append(FormulaList(lags, n - 1), [col |-> n, lag |-> lags[n]])

\* Trader(weights, formulas, max_lag): formula j reads column j, and max_lag
\* covers every formula's look-back.
Init ==
    /\ \E n \in TermCounts : \E lags \in [1..n -> Lags] :
         /\ formulas = FormulaList(lags, n)
         /\ weights = SubSeq(InitialWeights, 1, n)
    /\ max_lag \in Lags
    /\ \A j \in 1..Len(formulas) : formulas[j].lag <= max_lag
    /\ score = 0
    /\ pred_hist = NanArray(max_lag)
    /\ pred_hist_formulas = NanMatrix(max_lag, Len(formulas))
    /\ feature_arr = <<>>
    /\ lastOp = "init"
    /\ histWriter = "__init__"
    /\ eval_method = "none"
    /\ raised = "none"
    /\ result = <<>>

\* ------------------------------------------------------------- the caller
\* A new observation arrives: the caller's feature history grows by one row.
Observe ==
    /\ Len(feature_arr) < MaxT
    /\ \E row \in FeatureRows : feature_arr' = Append(feature_arr, row)
    /\ lastOp' = "observe"
    /\ eval_method' = "none"
    /\ raised' = "none"
    /\ result' = <<>>
    /\ UNCHANGED trader

\* ---------------------------------------------------------------- methods
AllFormulasDefined(feat) == \A j \in 1..n_terms : FormulaDefined(formulas[j], feat)

RECURSIVE SumTo(_, _)
SumTo(f, n) == IF n = 0 THEN 0 ELSE SumTo(f, n - 1) + f[n]

\* the weights are left out of the sum
TraderPredictUnweighted(feat) ==
    SumTo([j \in 1..n_terms |-> FormulaPredict(formulas[j], feat)], n_terms)

\* Trader.predict
TraderPredict(feat) ==
    SumTo([j \in 1..n_terms |-> weights[j] * FormulaPredict(formulas[j], feat)], n_terms)

\* Trader._predict_with_formula: <<pred_trader, pred_formulas>>
\* np.array([self.formulas[j].predict(feature_arr) for j in range(n)])
RECURSIVE FormulaPredicts(_, _)
FormulaPredicts(feat, n) ==
    IF n = 0 THEN <<>>
    ELSE Append(FormulaPredicts(feat, n - 1), Num(FormulaPredict(formulas[n], feat)))

\* self.weights * pred_formulas, the first n cells
RECURSIVE WeightedPredicts(_, _)
WeightedPredicts(pred_formulas, n) ==
    IF n = 0 THEN <<>>
    ELSE Append(WeightedPredicts(pred_formulas, n - 1),
                NpMul(Num(weights[n]), pred_formulas[n]))

PredictWithFormula(feat) ==
    LET pred_formulas == FormulaPredicts(feat, n_terms)
        pred_trader == NpSum(WeightedPredicts(pred_formulas, n_terms))
    IN  <<pred_trader, pred_formulas>>

Predict ==
    /\ lastOp' = "predict"
    /\ eval_method' = "none"
    /\ IF AllFormulasDefined(feature_arr)
       THEN raised' = "none" /\ result' = <<TraderPredict(feature_arr)>>
       ELSE raised' = "DimensionMismatch" /\ result' = <<>>
    /\ UNCHANGED <<trader, feature_arr>>

\* every step predicts from the whole feature history instead of its prefix
RECURSIVE RecalcLoopNoSlice(_, _, _, _)
RecalcLoopNoSlice(t, feat, hist, histF) ==
    IF t >= Len(feat) THEN <<hist, histF>>
    ELSE LET p == PredictWithFormula(feat)
         IN  RecalcLoopNoSlice(t + 1, feat, NpSetCell(hist, t, p[1]),
                               NpSetRow(histF, t, p[2]))

\* the loop of _recalc_predicts_hist, from step t on
RECURSIVE RecalcLoop(_, _, _, _)
RecalcLoop(t, feat, hist, histF) ==
    IF t >= Len(feat) THEN <<hist, histF>>
    ELSE LET p == PredictWithFormula(SubSeq(feat, 1, t + 1))
         IN  RecalcLoop(t + 1, feat, NpSetCell(hist, t, p[1]),
                        NpSetRow(histF, t, p[2]))

RecalcResult(feat) ==
    RecalcLoop(max_lag, feat, NanArray(Len(feat)), NanMatrix(Len(feat), n_terms))

RecalcPredictsHist ==
    /\ lastOp' = "recalc"
    /\ eval_method' = "none"
    /\ raised' = "none"
    /\ result' = <<>>
    /\ histWriter' = "_recalc_predicts_hist"
    /\ pred_hist' = RecalcResult(feature_arr)[1]
    /\ pred_hist_formulas' = RecalcResult(feature_arr)[2]
    /\ UNCHANGED <<weights, formulas, max_lag, score, feature_arr>>

AppendPredicts ==
    /\ Len(pred_hist) < MaxHist
    /\ lastOp' = "append"
    /\ eval_method' = "none"
    /\ result' = <<>>
    /\ IF AllFormulasDefined(feature_arr)
       THEN LET p == PredictWithFormula(feature_arr)
            IN  /\ raised' = "none"
                /\ histWriter' = "_append_predicts"
                /\ pred_hist' = Append(pred_hist, p[1])
                /\ pred_hist_formulas' = NpAppendFlat(pred_hist_formulas, p[2])
       ELSE /\ raised' = "DimensionMismatch"
            /\ UNCHANGED <<pred_hist, pred_hist_formulas, histWriter>>
    /\ UNCHANGED <<weights, formulas, max_lag, score, feature_arr>>

ReturnSeqs(n) == [1..n -> RetVals]

\* np.sign(a) * return_arr, the first n cells
RECURSIVE SignedReturns(_, _, _)
SignedReturns(hist, ret, n) ==
    IF n = 0 THEN <<>>
    ELSE Append(SignedReturns(hist, ret, n - 1), NpMul(NpSign(hist[n]), Num(ret[n])))

\* ~np.isnan(a), the first n cells
RECURSIVE NotNaN(_, _)
NotNaN(hist, n) == IF n = 0 THEN <<>> ELSE Append(NotNaN(hist, n - 1), ~IsNaN(hist[n]))

\* the prediction itself is multiplied in, not its sign
RECURSIVE UnsignedReturns(_, _, _)
UnsignedReturns(hist, ret, n) ==
    IF n = 0 THEN <<>>
    ELSE Append(UnsignedReturns(hist, ret, n - 1), NpMul(hist[n], Num(ret[n])))
DefaultScoreUnsigned(hist, ret) ==
    NpSum(BoolIndex(UnsignedReturns(hist, ret, Len(hist)), NotNaN(hist, Len(hist)))).val

\* np.sum((np.sign(self._pred_hist) * return_arr)[~np.isnan(self._pred_hist)])
DefaultScore(hist, ret) ==
    NpSum(BoolIndex(SignedReturns(hist, ret, Len(hist)), NotNaN(hist, Len(hist)))).val

\* an unknown method is scored as "default"
UpdateScoreCallFallback(ret, method) ==
    /\ lastOp' = "update_score"
    /\ eval_method' = method
    /\ result' = <<>>
    /\ raised' = "none"
    /\ score' = DefaultScore(pred_hist, ret)
    /\ UNCHANGED <<weights, formulas, max_lag, pred_hist, pred_hist_formulas, histWriter,
                   feature_arr>>

UpdateScoreCall(ret, method) ==
    /\ lastOp' = "update_score"
    /\ eval_method' = method
    /\ result' = <<>>
    /\ IF method = "default"
       THEN raised' = "none" /\ score' = DefaultScore(pred_hist, ret)
       ELSE raised' = "NotImplementedError" /\ score' = score
    /\ UNCHANGED <<weights, formulas, max_lag, pred_hist, pred_hist_formulas, histWriter,
                   feature_arr>>

\* return_arr has the length of _pred_hist, as the product on line 88 needs
UpdateScore ==
    \E ret \in ReturnSeqs(Len(pred_hist)), method \in Methods : UpdateScoreCall(ret, method)

\* the weights are cleared before the failing read
UpdateWeightsCallClobbers(ret) ==
    /\ lastOp' = "update_weights"
    /\ eval_method' = "none"
    /\ raised' = "AttributeError"
    /\ result' = <<>>
    /\ weights' = SubSeq(<<0, 0>>, 1, n_terms)
    /\ UNCHANGED <<formulas, max_lag, score, pred_hist, pred_hist_formulas, histWriter,
                   feature_arr>>

\* _update_weights reads self._preds_hist on its first line; __init__ creates
\* _pred_hist and no method creates another attribute, so the read raises
\* AttributeError before y, X and the assignment to self.weights.
UpdateWeightsCall(ret) ==
    /\ "_preds_hist" \notin TraderAttrs
    /\ lastOp' = "update_weights"
    /\ eval_method' = "none"
    /\ raised' = "AttributeError"
    /\ result' = <<>>
    /\ UNCHANGED <<trader, feature_arr>>

UpdateWeights ==
    \E ret \in ReturnSeqs(Len(pred_hist)) : UpdateWeightsCall(ret)

\* _to_numerial_repr builds formula_arr, then reads self.n_temrs; __init__
\* creates n_terms, so the read raises AttributeError and nothing is returned.
ToNumerialRepr ==
    LET formula_arr == [j \in 1..Len(formulas) |-> FormulaRepr(formulas[j])]
    IN  /\ lastOp' = "to_numerial_repr"
        /\ eval_method' = "none"
        /\ IF "n_temrs" \in TraderAttrs
           THEN raised' = "none" /\ result' = <<n_terms, formula_arr>>
           ELSE raised' = "AttributeError" /\ result' = <<>>
        /\ UNCHANGED <<trader, feature_arr>>

Next ==
    \/ Observe
    \/ Predict
    \/ RecalcPredictsHist
    \/ AppendPredicts
    \/ UpdateScore
    \/ UpdateWeights
    \/ ToNumerialRepr

Spec == Init /\ [][Next]_vars

\* ================================================================== claims
Front(s) == SubSeq(s, 1, Len(s) - 1)
Rows(a) == a.shape[1]
DefinedAt(t) == ~IsNaN(pred_hist[t])

\* C1: the agent-level history is as long as the per-formula history has rows
\* (its first dimension), and the per-formula history holds n_terms cells for
\* each of them.
HistoriesCoIndexed ==
    /\ Rows(pred_hist_formulas) = Len(pred_hist)
    /\ Len(pred_hist_formulas.data) = Len(pred_hist) * n_terms

\* C2: _append_predicts(H) on the histories _recalc_predicts_hist(H[:-1]) left,
\* with len(H) > max_lag, ends with the same row len(H)-1 in both histories as
\* _recalc_predicts_hist(H): the same prediction and the same n_terms-long
\* vector of formula predictions.
AppendMatchesRecompute ==
    [][(/\ lastOp' = "append" /\ raised' = "none"
        /\ Len(feature_arr) > max_lag
        /\ histWriter = "_recalc_predicts_hist"
        /\ pred_hist = RecalcResult(Front(feature_arr))[1]
        /\ pred_hist_formulas = RecalcResult(Front(feature_arr))[2])
       => LET T == Len(feature_arr)
              full == RecalcResult(feature_arr)
          IN  /\ Len(pred_hist') = T
              /\ pred_hist'[T] = full[1][T]
              /\ NpIndex(pred_hist_formulas', T - 1).data = NpIndex(full[2], T - 1).data]_vars

\* C3: after _recalc_predicts_hist on T >= max_lag rows both histories have T
\* rows, every row below max_lag is NaN in both, and every row t from max_lag
\* on holds the predictions made from the rows 0..t of the feature history.
RecalcFillsFromMaxLag ==
    (lastOp = "recalc" /\ Len(feature_arr) >= max_lag) =>
        LET T == Len(feature_arr) IN
        /\ Len(pred_hist) = T
        /\ pred_hist_formulas.shape = <<T, n_terms>>
        /\ Len(pred_hist_formulas.data) = T * n_terms
        /\ \A t \in 0..(T - 1) :
             LET prefix == SubSeq(feature_arr, 1, t + 1)
                 f(j) == FormulaPredict(formulas[j], prefix)
                 cell(j) == pred_hist_formulas.data[t * n_terms + j]
             IN  IF t < max_lag
                 THEN /\ IsNaN(pred_hist[t + 1])
                      /\ \A j \in 1..n_terms : IsNaN(cell(j))
                 ELSE /\ \A j \in 1..n_terms : cell(j) = Num(f(j))
                      /\ pred_hist[t + 1] =
                           Num(IF n_terms = 1 THEN weights[1] * f(1)
                               ELSE weights[1] * f(1) + weights[2] * f(2))

RecalcFillsFromMaxLagWitness ==
    /\ lastOp = "recalc" /\ max_lag = 1 /\ Len(feature_arr) = 2 /\ n_terms = 2
    /\ formulas[2].lag = 1
    /\ pred_hist = <<NaN, Num(-1)>>
    /\ pred_hist_formulas = [shape |-> <<2, 2>>, data |-> <<NaN, NaN, Num(0), Num(1)>>]

\* Gram matrix X'X and moment vector X'y of the defined rows of a history
DefinedRows(hist) == {t \in 1..Len(hist) : ~IsNaN(hist[t])}
RECURSIVE SumOver(_, _)
SumOver(S, g) ==
    IF S = {} THEN 0 ELSE LET x == CHOOSE y \in S : TRUE IN g[x] + SumOver(S \ {x}, g)
XCell(histF, t, j) == histF.data[(t - 1) * histF.shape[2] + j].val
Gram(histF, rows, i, j) ==
    SumOver(rows, [t \in rows |-> XCell(histF, t, i) * XCell(histF, t, j)])
Moment(histF, rows, ret, i) ==
    SumOver(rows, [t \in rows |-> XCell(histF, t, i) * ret[t]])
FullColumnRank(histF, rows) ==
    IF histF.shape[2] = 1 THEN Gram(histF, rows, 1, 1) # 0
    ELSE Gram(histF, rows, 1, 1) * Gram(histF, rows, 2, 2)
         - Gram(histF, rows, 1, 2) * Gram(histF, rows, 2, 1) # 0
\* w solves the normal equations X'X w = X'y
IsOLSFit(histF, rows, ret, w) ==
    \A i \in 1..histF.shape[2] :
        SumOver(1..histF.shape[2], [j \in 1..histF.shape[2] |-> Gram(histF, rows, i, j) * w[j]])
            = Moment(histF, rows, ret, i)

\* C4: with at least n_terms defined rows of full column rank in the
\* per-formula history, _update_weights succeeds and leaves in self.weights
\* the least-squares coefficients of the returns on the defined rows.
UpdateWeightsCommitsOLS ==
    [][\A ret \in ReturnSeqs(Len(pred_hist)) :
        (/\ UpdateWeightsCall(ret)
         /\ Len(pred_hist_formulas.shape) = 2
         /\ Rows(pred_hist_formulas) = Len(pred_hist)
         /\ Cardinality(DefinedRows(pred_hist)) >= n_terms
         /\ FullColumnRank(pred_hist_formulas, DefinedRows(pred_hist)))
        => /\ raised' = "none"
           /\ IsOLSFit(pred_hist_formulas, DefinedRows(pred_hist), ret, weights')]_vars

\* C5: a call of _update_weights that raises leaves self.weights as it was.
FailedUpdateKeepsWeights ==
    [][(lastOp' = "update_weights" /\ raised' # "none") => weights' = weights]_vars

FailedUpdateKeepsWeightsWitness ==
    /\ lastOp = "update_weights" /\ raised # "none"
    /\ weights = InitialWeights
    /\ Cardinality(DefinedRows(pred_hist)) >= n_terms

\* C6: _update_score with "default" sets score to the sum, over the positions
\* with a defined prediction, of sign(prediction) * return; a zero prediction
\* and an undefined position add nothing.
RECURSIVE SignedReturnSum(_, _, _)
SignedReturnSum(hist, ret, t) ==
    IF t = 0 THEN 0
    ELSE SignedReturnSum(hist, ret, t - 1)
         + (IF IsNaN(hist[t]) \/ hist[t].val = 0 THEN 0
            ELSE IF hist[t].val > 0 THEN ret[t] ELSE -ret[t])

DefaultScoreIsSignedReturnSum ==
    [][(lastOp' = "update_score" /\ eval_method' = "default")
       => \A ret \in ReturnSeqs(Len(pred_hist)) :
            UpdateScoreCall(ret, "default")
            => score' = SignedReturnSum(pred_hist, ret, Len(pred_hist))]_vars

\* predictions 2, -1 with returns 2, -1 score 2 + 1 = 3
DefaultScoreWitness ==
    /\ lastOp = "update_score" /\ eval_method = "default" /\ raised = "none"
    /\ pred_hist = <<Num(2), Num(-1)>>
    /\ score = 3

\* a zero prediction adds nothing: predictions 0, -1 with returns 2, 2
DefaultScoreZeroWitness ==
    /\ lastOp = "update_score" /\ eval_method = "default" /\ raised = "none"
    /\ pred_hist = <<Num(0), Num(-1)>>
    /\ score = -2

\* a position below max_lag is skipped: predictions NaN, 1 with returns x, 2
DefaultScoreNaNWitness ==
    /\ lastOp = "update_score" /\ eval_method = "default" /\ raised = "none"
    /\ pred_hist = <<NaN, Num(1)>>
    /\ score = 2

\* C7: _update_score with a method other than "default" raises and leaves the
\* score, the weights and both histories as they were.
UnknownMethodRaises ==
    [][(lastOp' = "update_score" /\ eval_method' # "default")
       => /\ raised' = "NotImplementedError"
          /\ UNCHANGED <<score, weights, pred_hist, pred_hist_formulas>>]_vars

UnknownMethodRaisesWitness ==
    /\ lastOp = "update_score" /\ eval_method = "sharpe"
    /\ raised = "NotImplementedError"
    /\ score = 3 /\ pred_hist = <<Num(2), Num(-1)>>

\* C8: _to_numerial_repr returns the pair of n_terms and the formulas'
\* numerical representations in formula order, without raising.
ExportReturnsCountAndReprs ==
    lastOp = "to_numerial_repr" =>
        /\ raised = "none"
        /\ result = <<n_terms, [j \in 1..n_terms |-> FormulaRepr(formulas[j])]>>

\* C9: every position below max_lag of the agent-level history is undefined.
BelowMaxLagUndefined ==
    \A t \in 1..Len(pred_hist) : t <= max_lag => IsNaN(pred_hist[t])

\* C10: predict changes neither history, the weights nor the score, and
\* returns the sum over j of weights[j] * formulas[j].predict(feature_arr).
RECURSIVE WeightedSum(_, _)
WeightedSum(feat, j) ==
    IF j = 0 THEN 0
    ELSE weights[j] * FormulaPredict(formulas[j], feat) + WeightedSum(feat, j - 1)

PredictIsPure ==
    [][lastOp' = "predict"
       => /\ UNCHANGED <<pred_hist, pred_hist_formulas, weights, score>>
          /\ raised' = "none" => result' = <<WeightedSum(feature_arr, n_terms)>>]_vars

PredictIsPureWitness ==
    /\ lastOp = "predict" /\ raised = "none" /\ n_terms = 2
    /\ result = <<-1>> /\ score # 0 /\ Len(pred_hist) = 2
====
